---------------------------- MODULE Spec2Model ----------------------------
(***************************************************************************)
(* cacheplus.value: the cache_value / async_cache_value decorators.        *)
(*                                                                         *)
(* Two decorated functions, each made by its own decorator instance, both  *)
(* with the default storage factory (one factory object, so one storage    *)
(* through cache_reference).  A call is one pass of `wrapper`; calls run   *)
(* as threads (cache_value) or tasks (async_cache_value): the two wrappers *)
(* have the same statements, and the steps below are cut at the points     *)
(* where a thread can be preempted between two uses of shared state, which *)
(* include every `await` of the suspending wrapper.                        *)
(***************************************************************************)
EXTENDS Naturals, Sequences, FiniteSets, TLC

\* Number of calls made to the decorated functions in one behaviour.
MaxCalls == 2

Calls == 1..MaxCalls

\* Python's None where the other values are names (a handle, a value), and
\* where they are tuples (a key, a payload).
None == "None"
NoKey == <<>>
NoData == <<>>

-----------------------------------------------------------------------------
\* The decorated functions and what they are called with.

\* call_success and call_fail of test_type_encoders, by name.
Funcs == {"f", "g"}

\* Argument objects: an int and an HTTPConnection.
Args ==
    { [type |-> "int", val |-> "1"],
      [type |-> "HTTPConnection", val |-> "google.com:80"] }

\* inspect.iscoroutinefunction(func): f is a plain function, g a coroutine
\* function (the tests have both flavours of each).
IsCoroutine(f) == f = "g"

\* The two decorator classes.
Forms == {"cache_value", "async_cache_value"}

\* The decorator class that takes a function of f's flavour.
FormOf(f) == IF IsCoroutine(f) THEN "async_cache_value" ELSE "cache_value"

\* Types the key deriver hashes without help.
NativelyHashable == {"int", "str"}

\* encode_conn of the tests: host and port, the object's identity dropped.
encode_conn(a) == a.val

\* self._type_encoders of each function's decorator: f has an encoder for
\* HTTPConnection (call_success), g has none (call_fail).
TypeEncoders(f) == IF f = "f" THEN {"HTTPConnection"} ELSE {}

\* self._expires_in of each function's decorator: f's entries are kept for
\* 1 second (test_value_expiration), g's without limit (the default).
ExpiresIn(f) == IF f = "f" THEN "1" ELSE None

\* make_function_key: a token per function, by qualified name.
make_function_key(f) == <<"fn", f>>

\* Whether make_value_key raises UnhashableParamError for these arguments.
Unhashable(encoders, a) ==
    /\ a.type \notin NativelyHashable
    /\ a.type \notin encoders

\* make_value_key: the function's token with the hashable form of the
\* argument (its value, or what the type's encoder makes of it).
make_value_key(function_key, encoders, a) ==
    IF a.type \in NativelyHashable
    THEN <<function_key, a.type, a.val>>
    ELSE <<function_key, a.type, encode_conn(a)>>

Keys ==
    UNION { { make_value_key(make_function_key(f), TypeEncoders(f), a) :
                a \in {x \in Args : ~Unhashable(TypeEncoders(f), x)} } :
            f \in Funcs }

-----------------------------------------------------------------------------
\* What the wrapped function can do, and the codec.

\* Values pickle can encode.
Pickleable == {"v1", "v2"}

\* Values pickle cannot encode, by what pickle.dumps raises on them: an open
\* file (TypeError, the tests' case), a structure nested deeper than the
\* recursion limit (RecursionError).
Unpickleable == {"file", "deep"}

DumpsRaises(v) ==
    CASE v = "file" -> "TypeError"
      [] v = "deep" -> "RecursionError"
      [] OTHER -> None

\* pickle.dumps and pickle.loads on what they can handle.
PickleDumps(v) == <<"pickle", v>>
PickleLoads(data) == data[2]

\* Payloads pickle.loads fails on, by what it raises: a payload that is not
\* a pickle (UnpicklingError), a pickle of a class the reader cannot import
\* (AttributeError).
Corrupted == {<<"garbage", "-">>, <<"stale", "-">>}

LoadsRaises(data) ==
    CASE data[1] = "garbage" -> "UnpicklingError"
      [] data[1] = "stale" -> "AttributeError"
      [] OTHER -> None

\* What one execution of the wrapped function ends with.
FuncOutcomes ==
    { [kind |-> "return", val |-> v] : v \in Pickleable \cup Unpickleable }
    \cup { [kind |-> "raise", val |-> "AppError"] }

\* What one storage operation ends with: "ok", or what it raises (the
\* configuration error, or anything else).
StorageOutcomes == {"ok", "ImproperlyConfiguredException", "Exception"}

\* Storage objects a factory can make.
StorageIds == {"S1", "S2"}

\* A storage entry: the payload, its retention, and the call that set it
\* (0 where there is none).
Absent == [data |-> NoData, expires_in |-> None, by |-> 0]

\* What applying a decorator to a function gave: nothing yet, the wrapper,
\* or an exception.
NotDecorated == [form |-> "-", outcome |-> "none"]
Wrapped(form) == [form |-> form, outcome |-> "wrapper"]
Rejected(form, e) == [form |-> form, outcome |-> e]

NoResult == [kind |-> "none", val |-> "-", cause |-> "-"]
Returned(v) == [kind |-> "return", val |-> v, cause |-> "-"]
Raised(e, cause) == [kind |-> "raise", val |-> e, cause |-> cause]

-----------------------------------------------------------------------------
VARIABLES
    serialize,    \* self._serialize of both decorators
    decoration,   \* decoration[f]: what decorating f gave
    registry,     \* cache_reference: the storage made for the factory
    handle,       \* handle[f]: self._storage of f's decorator
    lock,         \* lock[f]: the call holding f's threading.Lock / anyio.Lock
    store,        \* store[s][k]: the entry of storage s under key k
    nCalls,       \* calls started so far
    pc,           \* pc[c]: where call c is
    fn,           \* fn[c]: the decorated function call c is of
    arg,          \* arg[c]: its argument
    storage,      \* storage[c]: the local `storage`
    key,          \* key[c]: the local `key`
    value,        \* value[c]: the local `value`
    result,       \* result[c]: what the call returned or raised
    log,          \* log[c]: what the call did, in order
    fault,        \* fault[c]: what failed under call c: <<where, exception>>
    alone,        \* alone[c]: no call of the same key was running at its start
    expiries,     \* expiries[k]: entries of key k the storage has expired
    obj,          \* obj[c]: the object call c returned, named by the call
                  \* pickle.loads or func made it in (0: none)
    heap,         \* heap[i]: what object i holds now
    parent        \* parent[c]: the call in whose func call c was made (0:
                  \* none, the call comes from outside)

vars == <<serialize, decoration, registry, handle, lock, store, nCalls, pc, fn,
          arg, storage, key, value, result, log, fault, alone, expiries,
          obj, heap, parent>>

config == <<serialize, decoration>>
objects == <<obj, heap>>

\* The decorators are made; nothing is decorated, nothing called.
Made ==
    /\ serialize \in BOOLEAN
    /\ registry = None
    /\ handle = [f \in Funcs |-> None]
    /\ lock = [f \in Funcs |-> 0]
    /\ store = [s \in StorageIds |-> [k \in Keys |-> Absent]]
    /\ nCalls = 0
    /\ pc = [c \in Calls |-> "idle"]
    /\ fn = [c \in Calls |-> "f"]
    /\ arg = [c \in Calls |-> CHOOSE a \in Args : a.type = "int"]
    /\ storage = [c \in Calls |-> None]
    /\ key = [c \in Calls |-> NoKey]
    /\ value = [c \in Calls |-> None]
    /\ result = [c \in Calls |-> NoResult]
    /\ log = [c \in Calls |-> <<>>]
    /\ fault = [c \in Calls |-> <<>>]
    /\ alone = [c \in Calls |-> TRUE]
    /\ expiries = [k \in Keys |-> 0]
    /\ obj = [c \in Calls |-> 0]
    /\ heap = [c \in Calls |-> None]
    /\ parent = [c \in Calls |-> 0]

\* The program once its module is imported: each function decorated with
\* the decorator of its flavour.
Init ==
    /\ Made
    /\ decoration = [f \in Funcs |-> Wrapped(FormOf(f))]

\* The program before any decorator is applied.
InitDecoration ==
    /\ Made
    /\ decoration = [f \in Funcs |-> NotDecorated]

Running(c) == pc[c] \notin {"idle", "done"}

\* Call d is of function f with arguments equal to a (equal natively, or
\* under the type's encoder): the two make one CallKey.
SameCall(f, a, d) ==
    /\ pc[d] # "idle"
    /\ fn[d] = f
    /\ arg[d].type = a.type
    /\ arg[d].val = a.val

\* Whether `lock` is a real lock: no real lock is made for any function.
RealLockNever == FALSE

\* Whether `lock` is a real lock: a real lock is made for every function.
RealLockAlways == TRUE

\* Whether `lock` is a real lock, but the test of self._serialize is the
\* wrong way round.
RealLockInverted == ~serialize

\* lock = threading.Lock() (anyio.Lock()) if self._serialize, else a
\* _NullLock, whose __enter__ and __exit__ do nothing.
RealLock == serialize

\* `with lock:` can be entered by call c, but there is one lock for all
\* decorated functions.
CanAcquireOneLockForAll(c) == RealLock => \A f \in Funcs : lock[f] = 0

\* `with lock:` can be entered by call c: a real lock must be free.
CanAcquire(c) == RealLock => lock[fn[c]] = 0

\* The locks once call c has entered `with lock:` and not left.
Acquired(c) == IF RealLock THEN [lock EXCEPT ![fn[c]] = c] ELSE lock

\* The locks once call c has left `with lock:`, but a raise leaves the lock
\* held (acquire() and release() around the body, without try/finally).
ExitOnReturnOnly(c, r) ==
    IF RealLock
    THEN [lock EXCEPT ![fn[c]] = IF r.kind = "return" THEN 0 ELSE c]
    ELSE lock

\* The locks once call c has left `with lock:`, but the lock is released
\* by a statement before the last `return value` only (a hit's early return
\* and every raise pass it by).
ExitAtEndOfBody(c, r) ==
    IF RealLock
    THEN [lock EXCEPT
            ![fn[c]] = IF r.kind = "return" /\ pc[c] = "set" THEN 0 ELSE c]
    ELSE lock

\* The locks once call c has left `with lock:` with result r: __exit__ runs
\* on a return and on a raise alike.
Exit(c, r) == IF RealLock THEN [lock EXCEPT ![fn[c]] = 0] ELSE lock

\* The key the wrapper derives for call c, but from one function key for
\* all decorated functions.
WrapperKeySharedFunctionKey(c) ==
    make_value_key(make_function_key("f"), TypeEncoders(fn[c]), arg[c])

\* The key the wrapper derives for call c.
WrapperKey(c) ==
    make_value_key(make_function_key(fn[c]), TypeEncoders(fn[c]), arg[c])

\* What a hit of call c returns, but the wrapper keeps the objects it has
\* returned and a hit returns the one of the call that set the entry.
HitObjectKept(c, entry) == [id |-> entry.by, holds |-> heap[entry.by]]

\* What a hit of call c returns: the object pickle.loads makes of the
\* entry's payload in this call.
HitObject(c, entry) == [id |-> c, holds |-> PickleLoads(entry.data)]

\* The object a call that returns hands to its caller: on a hit (the call
\* did "loads") the hit's object, else the object func made in this call.
Owner(c, r, events) ==
    IF r.kind # "return"
    THEN 0
    ELSE IF \E i \in 1..Len(events) : events[i] = "loads"
         THEN HitObject(c, store[storage[c]][WrapperKey(c)]).id
         ELSE c

\* Call c ends with result r, after doing `events` and, when something
\* failed under it, after failure flt; a raise leaves no value behind.
Finish(c, r, events, flt) ==
    /\ result' = [result EXCEPT ![c] = r]
    /\ obj' = [obj EXCEPT ![c] = Owner(c, r, events)]
    /\ heap' = [heap EXCEPT ![c] = IF Owner(c, r, events) = c THEN r.val ELSE @]
    /\ fault' = [fault EXCEPT ![c] = flt]
    /\ value' = [value EXCEPT ![c] = IF r.kind = "return" THEN @ ELSE None]
    /\ log' = [log EXCEPT ![c] = log[c] \o events \o <<"release">>]
    /\ pc' = [pc EXCEPT ![c] = "done"]
    /\ lock' = Exit(c, r)

-----------------------------------------------------------------------------
\* Whether __call__ of the decorator class takes the function, but the
\* check of the flavour is left out.
AcceptsAny(form, f) == TRUE

\* Whether __call__ of the decorator class takes the function: cache_value
\* no coroutine function, async_cache_value nothing else.
Accepts(form, f) ==
    IF form = "cache_value" THEN ~IsCoroutine(f) ELSE IsCoroutine(f)

\* What __call__ raises for a function it does not take.
WrongFlavour == "TypeError"

\* cache_value(...)(func) / async_cache_value(...)(func): the check, then
\* function_key, lock and the wrapper are made.  Nothing else is touched.
Decorate(form, f) ==
    /\ decoration[f] = NotDecorated
    /\ decoration' = [decoration EXCEPT
                        ![f] = IF Accepts(form, f)
                               THEN Wrapped(form)
                               ELSE Rejected(form, WrongFlavour)]
    /\ UNCHANGED <<serialize, registry, handle, lock, store, nCalls, pc, fn,
                   arg, storage, key, value, result, log, fault, alone, parent,
                   expiries, objects>>

\* `self._storage is None` is false, but the wrapper resolves the factory
\* on every call.
IsBoundNever(f) == FALSE

\* `self._storage is None` is false.
IsBound(f) == handle[f] # None

\* wrapper(*args): the call is made, from inside the func of call p or
\* (p = 0) from outside, and reads self._storage.
Begin(f, a, p) ==
    /\ decoration[f].outcome = "wrapper"
    /\ nCalls < MaxCalls
    /\ LET c == nCalls + 1 IN
        /\ nCalls' = c
        /\ parent' = [parent EXCEPT ![c] = p]
        /\ fn' = [fn EXCEPT ![c] = f]
        /\ arg' = [arg EXCEPT ![c] = a]
        /\ alone' = [alone EXCEPT
                        ![c] = \A d \in Calls : SameCall(f, a, d) => ~Running(d)]
        /\ IF ~IsBound(f)
           THEN /\ pc' = [pc EXCEPT ![c] = "factory"]
                /\ UNCHANGED storage
           ELSE /\ pc' = [pc EXCEPT ![c] = "lock"]
                /\ storage' = [storage EXCEPT ![c] = handle[f]]
    /\ UNCHANGED <<config, registry, handle, lock, store, key, value, result,
                   log, fault, expiries, objects>>

\* A call from outside the decorated functions.
Call(f, a) == Begin(f, a, 0)

\* The calls made inside call c's func have ended: func can go on.
Returned2Func(c) == \A d \in Calls : parent[d] = c => pc[d] = "done"

\* The body of the plain function f, running in call c, calls f again (a
\* recursive function): the new call runs on c's thread, and c's func goes
\* on when it has ended.
Reenter(c, a) ==
    /\ pc[c] = "func"
    /\ ~IsCoroutine(fn[c])
    /\ Returned2Func(c)
    /\ Begin(fn[c], a, c)

\* cache_reference()(storage_factory)(): the factory runs on the first
\* resolution, every later one gets the object it made.
cache_reference ==
    IF registry = None THEN "S1" ELSE registry

\* storage = self._factory(); self._storage = storage
Bind(c) ==
    /\ pc[c] = "factory"
    /\ registry' = cache_reference
    /\ storage' = [storage EXCEPT ![c] = cache_reference]
    /\ handle' = [handle EXCEPT ![fn[c]] = cache_reference]
    /\ log' = [log EXCEPT ![c] = Append(log[c], "factory")]
    /\ pc' = [pc EXCEPT ![c] = "lock"]
    /\ UNCHANGED <<config, lock, store, nCalls, fn, arg, key, value, result,
                   fault, alone, parent, expiries, objects>>

\* What the wrapper makes of a failed storage.get, but every failure is
\* re-raised as it is.
GetFailureRaw(o) == Raised(o, "-")

\* What the wrapper makes of a failed storage.get.
GetFailure(o) ==
    IF o = "ImproperlyConfiguredException"
    THEN Raised(o, "-")
    ELSE Raised("CacheError", o)

\* if data is not None, but the wrapper takes every lookup for a miss.
IsHitNever(data) == FALSE

\* if data is not None
IsHit(data) == data # NoData

\* The exceptions of pickle.loads the wrapper catches.
LoadsCaught == {"UnpicklingError"}

\* What the wrapper makes of a failed pickle.loads: a caught exception
\* becomes the cause of CacheError, any other leaves the wrapper as it is.
LoadsFailure(e) ==
    IF e \in LoadsCaught
    THEN Raised("CacheError", e)
    ELSE Raised(e, "-")

\* with lock: key = make_value_key(...); data = storage.get(key); a hit
\* returns pickle.loads(data), or raises what the wrapper makes of its
\* failure.  One step: the statements between entering
\* the lock and storage.get touch nothing another call can see.
Lookup(c) ==
    /\ pc[c] = "lock"
    /\ CanAcquire(c)
    /\ IF Unhashable(TypeEncoders(fn[c]), arg[c])
       THEN /\ Finish(c, Raised("UnhashableParamError", "-"),
                       <<"acquire", "key">>, <<>>)
            /\ UNCHANGED key
       ELSE /\ key' = [key EXCEPT ![c] = WrapperKey(c)]
            /\ \E o \in StorageOutcomes :
                 IF o # "ok"
                 THEN Finish(c, GetFailure(o), <<"acquire", "key", "get">>,
                             <<"get", o>>)
                 ELSE LET entry == store[storage[c]][WrapperKey(c)]
                          data == entry.data IN
                      IF IsHit(data)
                      THEN IF LoadsRaises(data) = None
                           THEN Finish(c, Returned(HitObject(c, entry).holds),
                                       <<"acquire", "key", "get", "loads">>,
                                       <<>>)
                           ELSE Finish(c, LoadsFailure(LoadsRaises(data)),
                                       <<"acquire", "key", "get", "loads">>,
                                       <<"loads", LoadsRaises(data)>>)
                      ELSE /\ pc' = [pc EXCEPT ![c] = "func"]
                           /\ log' = [log EXCEPT ![c] =
                                        log[c] \o <<"acquire", "key", "get">>]
                           /\ lock' = Acquired(c)
                           /\ UNCHANGED <<result, value, fault, objects>>
    /\ UNCHANGED <<config, registry, handle, store, nCalls, fn, arg, storage,
                   alone, parent, expiries>>

\* The exceptions of pickle.dumps the wrapper catches.
DumpsCaught == {"TypeError", "PicklingError"}

\* What the wrapper makes of a failed pickle.dumps: a caught exception
\* becomes the cause of UnserializableReturnValueError, any other leaves
\* the wrapper as it is.
DumpsFailure(e) ==
    IF e \in DumpsCaught
    THEN Raised("UnserializableReturnValueError", e)
    ELSE Raised(e, "-")

\* What the wrapper makes of an exception of the wrapped function, but the
\* call is inside the try that wraps storage failures.
FuncFailureWrapped(e) == Raised("CacheError", e)

\* What the wrapper makes of an exception of the wrapped function: nothing,
\* the call is not inside a try.
FuncFailure(e) == Raised(e, "-")

\* value = func(*args); data = pickle.dumps(value)
Invoke(c) ==
    /\ pc[c] = "func"
    /\ Returned2Func(c)
    /\ \E o \in FuncOutcomes :
         IF o.kind = "raise"
         THEN Finish(c, FuncFailure(o.val), <<"func">>, <<"func", o.val>>)
         ELSE IF DumpsRaises(o.val) = None
         THEN /\ value' = [value EXCEPT ![c] = o.val]
              /\ pc' = [pc EXCEPT ![c] = "set"]
              /\ log' = [log EXCEPT ![c] = log[c] \o <<"func", "dumps">>]
              /\ UNCHANGED <<result, lock, fault, objects>>
         ELSE Finish(c, DumpsFailure(DumpsRaises(o.val)), <<"func", "dumps">>,
                     <<"dumps", DumpsRaises(o.val)>>)
    /\ UNCHANGED <<config, registry, handle, store, nCalls, fn, arg, storage,
                   key, alone, parent, expiries>>

\* The retention the wrapper hands to storage.set, but expires_in is left
\* out of the call.
SetExpiresInDefault(c) == None

\* The retention the wrapper hands to storage.set.
SetExpiresIn(c) == ExpiresIn(fn[c])

\* What the wrapper makes of a failed storage.set, but the failure is
\* re-raised as it is.
SetFailureRaw(o) == Raised(o, "-")

\* What the wrapper makes of a failed storage.set.
SetFailure(o) == Raised("CacheError", o)

\* The stores once call c's storage.set has succeeded, but the wrapper
\* returns the value without calling storage.set.
WrittenNothing(c) == store

\* The stores once call c's storage.set has succeeded.
Written(c) ==
    [store EXCEPT ![storage[c]][key[c]] =
        [data |-> PickleDumps(value[c]), expires_in |-> SetExpiresIn(c),
         by |-> c]]

\* storage.set(key, data, expires_in=self._expires_in); return value
Set(c) ==
    /\ pc[c] = "set"
    /\ \E o \in StorageOutcomes :
         IF o = "ok"
         THEN /\ store' = Written(c)
              /\ Finish(c, Returned(value[c]), <<"set">>, <<>>)
         ELSE /\ UNCHANGED store
              /\ Finish(c, SetFailure(o), <<"set">>, <<"set", o>>)
    /\ UNCHANGED <<config, registry, handle, nCalls, fn, arg, storage, key,
                   alone, parent, expiries>>

\* The storage drops an entry whose retention has run out.
Expire(s, k) ==
    /\ store[s][k].data # NoData
    /\ store[s][k].expires_in # None
    /\ store' = [store EXCEPT ![s][k] = Absent]
    /\ expiries' = [expiries EXCEPT ![k] = @ + 1]
    /\ UNCHANGED <<config, registry, handle, lock, nCalls, pc, fn, arg,
                   storage, key, value, result, log, fault, alone, parent, objects>>

\* Something other than the wrapper (another writer to the shared storage,
\* another version of the program) leaves a payload under a key that
\* pickle.loads fails on.
Corrupt(s, k, bad) ==
    /\ store[s][k].data # NoData
    /\ store[s][k].data \notin Corrupted
    /\ store' = [store EXCEPT ![s][k].data = bad]
    /\ UNCHANGED <<config, registry, handle, lock, nCalls, pc, fn, arg,
                   storage, key, value, result, log, fault, alone, parent,
                   expiries,
                   objects>>

Next ==
    \/ \E f \in Funcs, a \in Args : Call(f, a)
    \/ \E c \in Calls : Bind(c)
    \/ \E c \in Calls : Lookup(c)
    \/ \E c \in Calls : Invoke(c)
    \/ \E c \in Calls : Set(c)
    \/ \E s \in StorageIds, k \in Keys : Expire(s, k)
    \/ \E s \in StorageIds, k \in Keys, bad \in Corrupted : Corrupt(s, k, bad)

Spec == Init /\ [][Next]_vars

\* The wrapper over a storage that hands back the payload it was given, or
\* nothing once the entry has expired (the MemoryStorage of the tests).
NextIntact ==
    \/ \E f \in Funcs, a \in Args : Call(f, a)
    \/ \E c \in Calls : Bind(c)
    \/ \E c \in Calls : Lookup(c)
    \/ \E c \in Calls : Invoke(c)
    \/ \E c \in Calls : Set(c)
    \/ \E s \in StorageIds, k \in Keys : Expire(s, k)

SpecIntact == Init /\ [][NextIntact]_vars

\* The caller of a call that returned changes the object it was handed.
Mutate(c) ==
    /\ pc[c] = "done" /\ result[c].kind = "return"
    /\ heap[obj[c]] # "mutated"
    /\ heap' = [heap EXCEPT ![obj[c]] = "mutated"]
    /\ UNCHANGED <<config, registry, handle, lock, store, nCalls, pc, fn, arg,
                   storage, key, value, result, log, fault, alone, parent,
                   expiries,
                   obj>>

\* Calls whose callers change what they are handed.
NextCopies ==
    \/ \E f \in Funcs, a \in Args : Call(f, a)
    \/ \E c \in Calls : Bind(c)
    \/ \E c \in Calls : Lookup(c)
    \/ \E c \in Calls : Invoke(c)
    \/ \E c \in Calls : Set(c)
    \/ \E c \in Calls : Mutate(c)

SpecCopies == Init /\ [][NextCopies]_vars

\* Calls, also from inside the wrapped function, under a fair scheduler:
\* a step of a call that stays possible is taken.
NextLive ==
    \/ \E f \in Funcs, a \in Args : Call(f, a)
    \/ \E c \in Calls, a \in Args : Reenter(c, a)
    \/ \E c \in Calls : Bind(c)
    \/ \E c \in Calls : Lookup(c)
    \/ \E c \in Calls : Invoke(c)
    \/ \E c \in Calls : Set(c)

Fair ==
    \A c \in Calls :
        /\ WF_vars(Bind(c)) /\ WF_vars(Lookup(c))
        /\ WF_vars(Invoke(c)) /\ WF_vars(Set(c))

SpecLive == Init /\ [][NextLive]_vars /\ Fair

\* Decoration, and calls of what it made.
NextDecoration ==
    \/ \E form \in Forms, f \in Funcs : Decorate(form, f)
    \/ \E f \in Funcs, a \in Args : Call(f, a)
    \/ \E c \in Calls : Bind(c)
    \/ \E c \in Calls : Lookup(c)
    \/ \E c \in Calls : Invoke(c)
    \/ \E c \in Calls : Set(c)

SpecDecoration == InitDecoration /\ [][NextDecoration]_vars

-----------------------------------------------------------------------------
\* What the histories say.

Started(c) == pc[c] # "idle"
Done(c) == pc[c] = "done"
ReturnedOk(c) == result[c].kind = "return"

\* Call c did `event` (one of "factory", "acquire", "key", "get", "loads",
\* "func", "dumps", "set", "release").
Did(c, event) == \E i \in 1..Len(log[c]) : log[c][i] = event
Times(c, event) == Len(SelectSeq(log[c], LAMBDA e : e = event))

Executed(c) == Did(c, "func")
Hit(c) == Did(c, "loads")

Keyable(c) == ~Unhashable(TypeEncoders(fn[c]), arg[c])

\* The started calls of c's function whose arguments equal c's.
Group(c) == {d \in Calls : SameCall(fn[c], arg[c], d)}

\* The first call of c's group (calls are numbered as they start).
First(c) == CHOOSE d \in Group(c) : \A e \in Group(c) : d <= e

\* The bound storage's entry for c's key.
Entry(c) == store["S1"][WrapperKey(c)]

\* The arguments of c make a key, nothing failed under any call of c's
\* group, the storage expired no entry of its key, and the key's payload is
\* not a corrupt one.
Undisturbed(c) ==
    /\ Keyable(c)
    /\ \A d \in Group(c) : fault[d] = <<>>
    /\ expiries[WrapperKey(c)] = 0
    /\ Entry(c).data \notin Corrupted

\* The calls of c's group did not overlap.
Sequential(c) == \A d \in Group(c) : alone[d]

\* C1: in a sequence of non-overlapping calls with equal arguments, with
\* nothing failing and no entry expiring, the wrapped function executes
\* exactly once, in the first call; every later call is a cache hit; and
\* all calls return equal values.
C1_SequentialCallsExecuteOnce ==
    \A c \in Calls :
        (Started(c) /\ Sequential(c) /\ Undisturbed(c)) =>
            /\ \A d \in Group(c) : Executed(d) => d = First(c)
            /\ \A d \in Group(c) : Done(d) =>
                    /\ ReturnedOk(d)
                    /\ IF d = First(c)
                       THEN Executed(d) /\ ~Hit(d)
                       ELSE Hit(d) /\ ~Executed(d)
                    /\ Times(d, "func") <= 1
            /\ \A d, e \in Group(c) :
                    (Done(d) /\ Done(e)) => result[d].val = result[e].val

\* Two calls of f with an HTTPConnection, one after the other: the second
\* is a hit and returns what the first computed.
C1_Witness ==
    \E c, d \in Calls :
        /\ c < d /\ d \in Group(c) /\ arg[c].type = "HTTPConnection"
        /\ Sequential(c) /\ Undisturbed(c)
        /\ Done(c) /\ Done(d) /\ Hit(d) /\ Executed(c)

\* C2: with serialize, among calls with equal arguments that may overlap in
\* any way, with nothing failing and no entry expiring, the wrapped
\* function executes exactly once; the call that executed it stored the
\* value; every other call found the entry; all return equal values.
C2_SerializedCallsExecuteOnce ==
    \A c \in Calls :
        (serialize /\ Started(c) /\ Undisturbed(c)) =>
            /\ Cardinality({d \in Group(c) : Executed(d)}) <= 1
            /\ \A d \in Group(c) : Done(d) =>
                    /\ ReturnedOk(d)
                    /\ Cardinality({e \in Group(c) : Executed(e)}) = 1
                    /\ Executed(d) # Hit(d)
                    /\ Executed(d) => Did(d, "set")
            /\ \A d, e \in Group(c) :
                    (Done(d) /\ Done(e)) => result[d].val = result[e].val

\* Two overlapping calls with equal arguments under serialize, both done:
\* one executed the function, the other hit.
C2_Witness ==
    \E c, d \in Calls :
        /\ serialize /\ c < d /\ d \in Group(c) /\ ~alone[d]
        /\ Undisturbed(c)
        /\ Done(c) /\ Done(d)
        /\ Executed(c) # Executed(d)

\* C3 as claimed: without serialize, among calls with equal arguments that
\* may overlap, with nothing failing and no entry expiring, the function
\* executes at least once and at most once per call, every call returns,
\* all returned values are equal, and once all have finished the storage
\* holds the entry of the last set.
C3_AsClaimed ==
    \A c \in Calls :
        (~serialize /\ Started(c) /\ Undisturbed(c)) =>
            /\ \A d \in Group(c) : Done(d) =>
                    /\ ReturnedOk(d)
                    /\ \E e \in Group(c) : Executed(e)
                    /\ Times(d, "func") <= 1
            /\ \A d, e \in Group(c) :
                    (Done(d) /\ Done(e)) => result[d].val = result[e].val
            /\ (\A d \in Group(c) : Done(d)) =>
                    /\ Entry(c).by \in Group(c)
                    /\ Entry(c).data = PickleDumps(result[Entry(c).by].val)

\* C3 (amended): without serialize, among calls with equal arguments that
\* may overlap, with nothing failing and no entry expiring: no call waits
\* at the gate; every call returns; each call either executes the function
\* once or is a hit, so the function executes at least once and at most
\* once per call; every returned value is the value of one of these
\* executions, and all returned values are equal when the executions
\* returned equal values; once all have finished the storage holds the
\* payload of the last set.
C3_UnserializedCalls ==
    \A c \in Calls :
        (~serialize /\ Started(c) /\ Undisturbed(c)) =>
            /\ \A d \in Group(c) : pc[d] = "lock" => CanAcquire(d)
            /\ \A d \in Group(c) : Done(d) =>
                    /\ ReturnedOk(d)
                    /\ Executed(d) # Hit(d)
                    /\ Times(d, "func") <= 1
                    /\ \E e \in Group(c) :
                            /\ Executed(e) /\ Done(e)
                            /\ result[e].val = result[d].val
            /\ (\A d, e \in Group(c) :
                    (Done(d) /\ Executed(d) /\ Done(e) /\ Executed(e))
                        => result[d].val = result[e].val)
                => \A d, e \in Group(c) :
                    (Done(d) /\ Done(e)) => result[d].val = result[e].val
            /\ (\A d \in Group(c) : Done(d)) =>
                    /\ Entry(c).by \in Group(c)
                    /\ Executed(Entry(c).by)
                    /\ Entry(c).data = PickleDumps(result[Entry(c).by].val)

\* Two overlapping calls with equal arguments, both missed, both executed
\* the function (the tests' two executions), and returned different values.
C3_Witness ==
    \E c, d \in Calls :
        /\ ~serialize /\ c < d /\ d \in Group(c) /\ ~alone[d]
        /\ Undisturbed(c)
        /\ Done(c) /\ Done(d)
        /\ Executed(c) /\ Executed(d)
        /\ result[c].val # result[d].val

\* C4: every entry in the storage carries the expires_in configured for the
\* function of the call that set it; a hit executes the wrapped function
\* zero times; and in a sequence of non-overlapping calls with equal
\* arguments under which nothing failed, once they have finished, the
\* function has executed once per entry the storage has expired plus once
\* for the entry still retained (a call, expiry, a second call: two
\* executions).
C4_RetentionIsTheStorages ==
    /\ \A s \in StorageIds, k \in Keys :
            store[s][k].data # NoData =>
                store[s][k].expires_in = ExpiresIn(fn[store[s][k].by])
    /\ \A c \in Calls : Hit(c) => ~Executed(c)
    /\ \A c \in Calls :
        ( /\ Started(c) /\ Keyable(c) /\ Sequential(c)
          /\ \A d \in Group(c) : Done(d) /\ fault[d] = <<>> ) =>
            Cardinality({d \in Group(c) : Executed(d)})
                = expiries[WrapperKey(c)]
                    + (IF Entry(c).data # NoData THEN 1 ELSE 0)

\* expires_in = 1: a call, the expiry of its entry, then a second call with
\* equal arguments, which executed the function again and stored an entry.
C4_Witness ==
    \E c, d \in Calls :
        /\ ExpiresIn(fn[c]) = "1" /\ c < d /\ d \in Group(c) /\ Keyable(c)
        /\ Sequential(c)
        /\ Done(c) /\ Done(d) /\ ReturnedOk(c) /\ ReturnedOk(d)
        /\ Executed(c) /\ Executed(d)
        /\ expiries[WrapperKey(c)] = 1
        /\ Entry(d).by = d /\ Entry(d).expires_in = "1"

\* C5: a value a call returns is the value its own execution of the wrapped
\* function returned (which it has stored), or else the call was a hit and
\* the value is one that an earlier call of the same function with equal
\* arguments computed and stored; never a value of other arguments or of
\* another function, though all share one storage.
C5_ReturnsOwnOrStoredValue ==
    \A c \in Calls :
        (Done(c) /\ ReturnedOk(c)) =>
            IF Executed(c)
            THEN /\ ~Hit(c) /\ Did(c, "set")
                 /\ result[c].val = value[c]
            ELSE /\ Hit(c)
                 /\ \E d \in Group(c) \ {c} :
                        /\ Executed(d) /\ Did(d, "set") /\ ReturnedOk(d)
                        /\ result[d].val = result[c].val

\* f and g called with the same int, both on the one storage, returned
\* different values, each its own.
C5_Witness ==
    \E c, d \in Calls :
        /\ fn[c] # fn[d] /\ arg[c] = arg[d]
        /\ storage[c] = storage[d]
        /\ Done(c) /\ Done(d) /\ ReturnedOk(c) /\ ReturnedOk(d)
        /\ result[c].val # result[d].val

\* C6: a call whose arguments make no key raises UnhashableParamError
\* having entered the gate and done nothing else: no storage.get, no
\* execution of the wrapped function, no storage.set, no entry of its own in
\* any storage, the gate not held by it afterwards.
C6_UnhashableRaisesFirst ==
    \A c \in Calls :
        (Started(c) /\ ~Keyable(c)) =>
            /\ ~Did(c, "get") /\ ~Did(c, "loads") /\ ~Did(c, "func")
            /\ ~Did(c, "dumps") /\ ~Did(c, "set")
            /\ key[c] = NoKey
            /\ \A s \in StorageIds, k \in Keys : store[s][k].by # c
            /\ Done(c) =>
                    /\ result[c] = Raised("UnhashableParamError", "-")
                    /\ lock[fn[c]] # c
                    /\ log[c][Len(log[c])] = "release"

\* Under serialize, g called with an HTTPConnection raised
\* UnhashableParamError, and a later call of g with an int went through
\* the gate, executed and returned.
C6_Witness ==
    \E c, d \in Calls :
        /\ serialize /\ c < d /\ fn[c] = fn[d]
        /\ ~Keyable(c) /\ Done(c)
        /\ result[c].val = "UnhashableParamError"
        /\ Keyable(d) /\ Done(d) /\ ReturnedOk(d) /\ Executed(d)

\* C7 as claimed: whatever pickle.dumps raised on the wrapped function's
\* value, the call raises UnserializableReturnValueError with that
\* exception as its cause, having stored nothing.
C7_AsClaimed ==
    \A c \in Calls :
        (fault[c] # <<>> /\ fault[c][1] = "dumps") =>
            /\ result[c] =
                    Raised("UnserializableReturnValueError", fault[c][2])
            /\ ~Did(c, "set")
            /\ \A s \in StorageIds, k \in Keys : store[s][k].by # c

\* C8: an exception of the wrapped function is what the call raises, as it
\* is; the call has encoded and stored nothing and does not hold the gate;
\* and while every call with these arguments ended so, the storage has no
\* entry for the key and each of the calls executed the function.
C8_FunctionExceptionPropagates ==
    \A c \in Calls :
        (fault[c] # <<>> /\ fault[c][1] = "func") =>
            /\ Done(c) /\ Executed(c)
            /\ result[c] = Raised(fault[c][2], "-")
            /\ ~Did(c, "dumps") /\ ~Did(c, "set")
            /\ \A s \in StorageIds, k \in Keys : store[s][k].by # c
            /\ lock[fn[c]] # c
            /\ (\A d \in Group(c) : Done(d) /\ fault[d] = fault[c]) =>
                    /\ Entry(c).data = NoData
                    /\ \A d \in Group(c) : Executed(d) /\ ~Hit(d)

\* The wrapped function raised in a call, and raised again in the next call
\* with equal arguments.
C8_Witness ==
    \E c, d \in Calls :
        /\ c < d /\ d \in Group(c) /\ alone[d]
        /\ fault[c] = <<"func", "AppError">> /\ fault[d] = fault[c]
        /\ result[d].val = "AppError"

\* C9: when storage.get fails with anything but
\* ImproperlyConfiguredException, the call raises CacheError with that
\* failure as its cause, having neither executed the wrapped function nor
\* decoded nor stored anything, and it does not hold the gate.
C9_GetFailureFailsClosed ==
    \A c \in Calls :
        ( /\ fault[c] # <<>> /\ fault[c][1] = "get"
          /\ fault[c][2] # "ImproperlyConfiguredException" ) =>
            /\ Done(c)
            /\ result[c] = Raised("CacheError", fault[c][2])
            /\ ~Executed(c) /\ ~Did(c, "loads")
            /\ ~Did(c, "dumps") /\ ~Did(c, "set")
            /\ value[c] = None
            /\ \A s \in StorageIds, k \in Keys : store[s][k].by # c
            /\ lock[fn[c]] # c
            /\ log[c][Len(log[c])] = "release"

\* Under serialize, storage.get failed under one call, and the next call of
\* the same function entered the gate.
C9_Witness ==
    \E c, d \in Calls :
        /\ serialize /\ c < d /\ fn[c] = fn[d]
        /\ fault[c] = <<"get", "Exception">>
        /\ Did(d, "acquire")

\* C10 as claimed: an ImproperlyConfiguredException of storage.get or of
\* storage.set is what the call raises, as it is.
C10_AsClaimed ==
    \A c \in Calls :
        ( /\ fault[c] # <<>> /\ fault[c][1] \in {"get", "set"}
          /\ fault[c][2] = "ImproperlyConfiguredException" ) =>
            result[c] = Raised("ImproperlyConfiguredException", "-")

\* C11 as claimed: whatever pickle.loads raised on a present payload, the
\* call raises CacheError with that exception as its cause, without having
\* executed the wrapped function or written to the storage, and does not
\* hold the gate.
C11_AsClaimed ==
    \A c \in Calls :
        (fault[c] # <<>> /\ fault[c][1] = "loads") =>
            /\ result[c] = Raised("CacheError", fault[c][2])
            /\ ~Executed(c) /\ ~Did(c, "set")
            /\ \A s \in StorageIds, k \in Keys : store[s][k].by # c
            /\ lock[fn[c]] # c

\* C12: when storage.set fails, the call raises CacheError with that
\* failure as its cause and returns no value; it has executed the wrapped
\* function once and encoded its value; it has left no entry and does not
\* hold the gate; and a later call with equal arguments that got no entry
\* from storage.get executes the function again.
C12_SetFailureFailsClosed ==
    \A c \in Calls :
        (fault[c] # <<>> /\ fault[c][1] = "set") =>
            /\ Done(c)
            /\ result[c] = Raised("CacheError", fault[c][2])
            /\ Times(c, "func") = 1 /\ Times(c, "dumps") = 1
            /\ Times(c, "set") = 1
            /\ value[c] = None
            /\ \A s \in StorageIds, k \in Keys : store[s][k].by # c
            /\ lock[fn[c]] # c
            /\ \A d \in Group(c) :
                    (d > c /\ Did(d, "get") /\ ~Hit(d)
                        /\ (fault[d] = <<>> \/ fault[d][1] # "get")) =>
                            (pc[d] = "func" \/ Executed(d))

\* storage.set failed under a call after the function had returned; the
\* next call with equal arguments missed, executed the function and
\* returned.
C12_Witness ==
    \E c, d \in Calls :
        /\ c < d /\ d \in Group(c) /\ alone[d]
        /\ fault[c] = <<"set", "Exception">> /\ Executed(c)
        /\ ~Hit(d) /\ Executed(d) /\ Done(d) /\ ReturnedOk(d)

\* A decorator was applied to f and raised.
Refused(f) == decoration[f].outcome \notin {"none", "wrapper"}

\* C13 as claimed: a decorator applied to a function of the other flavour
\* raises the configuration error (the class a misconfigured storage
\* raises, ImproperlyConfiguredException).
C13_AsClaimed ==
    \A f \in Funcs :
        Refused(f) => decoration[f].outcome = "ImproperlyConfiguredException"

\* C13 (amended): cache_value applied to a coroutine function, and
\* async_cache_value applied to any other callable, raise TypeError, in
\* both directions, and only then; no wrapper is made, so the function is
\* never called through one, its decorator's storage handle stays unbound
\* and, while nothing was wrapped, no storage is resolved; and no call ever
\* raises this error, the check not being on a call path.
C13_WrongFlavourRaisesTypeError ==
    /\ \A f \in Funcs :
        /\ Refused(f) <=>
                (decoration[f].form \in Forms /\ decoration[f].form # FormOf(f))
        /\ Refused(f) =>
                /\ decoration[f].outcome = "TypeError"
                /\ \A c \in Calls : Started(c) => fn[c] # f
                /\ handle[f] = None /\ lock[f] = 0
        /\ decoration[f].outcome = "wrapper" => decoration[f].form = FormOf(f)
    /\ (\A f \in Funcs : decoration[f].outcome # "wrapper") =>
            (registry = None /\ nCalls = 0)
    /\ \A c \in Calls :
            Done(c) => ~(result[c].val = "TypeError" /\ result[c].cause = "-")

\* Both directions were refused: cache_value on the coroutine function g,
\* async_cache_value on the plain function f.
C13_Witness ==
    /\ decoration["g"] = Rejected("cache_value", "TypeError")
    /\ decoration["f"] = Rejected("async_cache_value", "TypeError")

\* C14: every call that returns hands out an object of its own, shared with
\* no other call; what a hit returns holds the value the setting call
\* computed, whatever the callers have since done to the objects they were
\* handed; and every entry of the storage is the encoding of the value the
\* setting call computed, not that call's object.
C14_EveryCallerItsOwnCopy ==
    /\ \A c \in Calls :
            IF Done(c) /\ ReturnedOk(c) THEN obj[c] = c ELSE obj[c] = 0
    /\ \A c \in Calls :
            (Done(c) /\ ReturnedOk(c) /\ Hit(c)) =>
                /\ result[c].val \in Pickleable
                /\ \E b \in Group(c) \ {c} :
                        /\ Did(b, "set") /\ ReturnedOk(b)
                        /\ result[c].val = value[b]
                /\ heap[c] \in {result[c].val, "mutated"}
    /\ \A s \in StorageIds, k \in Keys :
            store[s][k].data # NoData =>
                store[s][k].data = PickleDumps(value[store[s][k].by])

\* A call executed the function and returned, its caller changed the object
\* it was handed, and a later call with equal arguments hit and returned
\* the value as the first call computed it, in an object not yet changed.
C14_Witness ==
    \E c, d \in Calls :
        /\ c < d /\ d \in Group(c) /\ alone[d]
        /\ Executed(c) /\ ReturnedOk(c) /\ heap[c] = "mutated"
        /\ Hit(d) /\ Done(d) /\ ReturnedOk(d)
        /\ result[d].val = value[c] /\ heap[d] = value[c]

\* Call c is inside `with lock:`, between two steps.
Inside(c) == pc[c] \in {"func", "set"}

\* C15: with serialize, no two calls of one decorated function are inside
\* `with lock:` at once, whatever their arguments; the lock of a function is
\* held exactly while one of its calls is inside, by that call; and a call
\* can enter exactly when no call of its own function is inside, whatever
\* calls of other functions are doing.
C15_OneCallPerFunctionInside ==
    serialize =>
        /\ \A c, d \in Calls :
                (c # d /\ fn[c] = fn[d]) => ~(Inside(c) /\ Inside(d))
        /\ \A f \in Funcs :
                /\ lock[f] # 0 => (fn[lock[f]] = f /\ Inside(lock[f]))
                /\ \A c \in Calls : (Inside(c) /\ fn[c] = f) => lock[f] = c
        /\ \A c \in Calls :
                pc[c] = "lock" =>
                    (CanAcquire(c) <=>
                        ~\E d \in Calls : fn[d] = fn[c] /\ Inside(d))

\* With serialize, a call of f is inside and a call of f with another
\* argument waits at the lock.
C15_Witness ==
    \E c, d \in Calls :
        /\ serialize /\ fn[c] = fn[d] /\ arg[c] # arg[d]
        /\ Inside(c) /\ pc[d] = "lock" /\ ~CanAcquire(d)

\* The ways a call can end: by what it returned after what, or raised.
ExitPath(c) ==
    IF ReturnedOk(c)
    THEN <<"return", IF Hit(c) THEN "hit" ELSE "miss">>
    ELSE <<result[c].val, IF fault[c] = <<>> THEN "key" ELSE fault[c][1]>>

\* C16: a call that has ended, however it ended (hit, stored miss,
\* UnhashableParamError, CacheError from get, loads or set, the propagated
\* configuration error, UnserializableReturnValueError, an exception of the
\* wrapped function or of the codec), entered the lock once, left it once as
\* the last thing it did, and does not hold it; and with serialize the lock
\* of a function is free whenever none of its calls is inside.
C16_LockReleasedOnEveryPath ==
    /\ \A c \in Calls :
            Done(c) =>
                /\ Times(c, "acquire") = 1 /\ Times(c, "release") = 1
                /\ log[c][Len(log[c])] = "release"
                /\ lock[fn[c]] # c
    /\ \A f \in Funcs :
            (~\E c \in Calls : fn[c] = f /\ Inside(c)) => lock[f] = 0

\* With serialize, a call ended with the configuration error of
\* storage.get, and the next call of the same function, started after it,
\* went through the lock and returned.
C16_Witness ==
    \E c, d \in Calls :
        /\ serialize /\ c < d /\ fn[c] = fn[d]
        /\ ExitPath(c) = <<"ImproperlyConfiguredException", "get">>
        /\ Did(d, "acquire") /\ Done(d) /\ ReturnedOk(d)

\* Where in what call c did `event` comes first.
Pos(c, event) == CHOOSE i \in 1..Len(log[c]) : log[c][i] = event

\* C17 as claimed: each call performs exactly one storage.get and at most
\* one storage.set.
C17_AsClaimed ==
    \A c \in Calls :
        Done(c) => (Times(c, "get") = 1 /\ Times(c, "set") <= 1)

\* What call c did, in the wrapper's order.
CallFrame(c) ==
    /\ Times(c, "get") <= 1 /\ Times(c, "func") <= 1
    /\ Times(c, "set") <= 1
    /\ (Done(c) /\ Keyable(c)) => Times(c, "get") = 1
    /\ (Done(c) /\ ~Keyable(c)) => Times(c, "get") = 0
    /\ Did(c, "func") => (Did(c, "get") /\ Pos(c, "get") < Pos(c, "func"))
    /\ Did(c, "set") =>
            /\ ~Hit(c)
            /\ Did(c, "func") /\ Did(c, "dumps")
            /\ Pos(c, "func") < Pos(c, "dumps")
            /\ Pos(c, "dumps") < Pos(c, "set")
    /\ Hit(c) =>
            /\ ~Executed(c) /\ ~Did(c, "dumps") /\ ~Did(c, "set")
            /\ \A s \in StorageIds, k \in Keys : store[s][k].by # c
    /\ (serialize /\ Inside(c)) => Entry(c).data = NoData

\* The entry of storage s under key k, if there is one, is of a call that
\* did storage.set under this key and returned.
EntrySetByCall(s, k) ==
    store[s][k].data # NoData =>
        /\ store[s][k].by \in Calls
        /\ Did(store[s][k].by, "set") /\ ReturnedOk(store[s][k].by)
        /\ key[store[s][k].by] = k

FramesKept ==
    /\ \A c \in Calls : CallFrame(c)
    /\ \A s \in StorageIds, k \in Keys : EntrySetByCall(s, k)

\* C17 (amended): at all times, each call has performed at most one
\* storage.get (exactly one once it has ended, unless its arguments made no
\* key), at most one execution of the wrapped function and at most one
\* storage.set; a call that did storage.set did get, func, dumps and set in
\* this order and had no hit; a hit executes nothing and sets nothing; every
\* entry of the storage was set by a call that did storage.set and returned;
\* and with serialize the key of a call that is inside has no entry, the
\* miss it observed standing until it sets.
C17_EntriesWrittenOnlyAfterMiss == []FramesKept

\* A call missed, executed and stored; the next call with equal arguments
\* hit; the entry is still the first call's.
C17_Witness ==
    \E c, d \in Calls :
        /\ c < d /\ d \in Group(c) /\ alone[d]
        /\ Did(c, "set") /\ ReturnedOk(c)
        /\ Hit(d) /\ Done(d) /\ ReturnedOk(d)
        /\ Entry(c).by = c /\ Entry(c).data = PickleDumps(value[c])

\* Call c has its local `storage`.
HasStorage(c) == pc[c] \notin {"idle", "factory"}

\* The handles, the locals and the registry name one storage object, and
\* only it has entries.
OneStorage ==
    /\ \A f \in Funcs :
        /\ handle[f] \in {None, "S1"}
        /\ handle[f] # None => registry = handle[f]
        /\ handle[f] = None => \A c \in Calls : fn[c] = f => ~HasStorage(c)
    /\ \A c \in Calls :
        /\ HasStorage(c) =>
                /\ storage[c] = registry /\ storage[c] # None
                /\ handle[fn[c]] = storage[c]
        /\ Did(c, "acquire") => HasStorage(c)
        /\ Times(c, "factory") <= 1
    /\ \A c, d \in Calls :
        (HasStorage(c) /\ HasStorage(d)) => storage[c] = storage[d]
    /\ \A s \in StorageIds, k \in Keys :
        store[s][k].data # NoData => s = registry

\* A step leaves a bound handle and the registry's object as they are, and
\* a call made when the handle is bound takes the handle, resolving nothing.
BoundOnce ==
    /\ \A f \in Funcs : handle[f] # None => handle'[f] = handle[f]
    /\ registry # None => registry' = registry
    /\ \A c \in Calls :
        (pc[c] = "idle" /\ pc'[c] # "idle" /\ handle[fn'[c]] # None) =>
            (pc'[c] = "lock" /\ storage'[c] = handle[fn'[c]])

\* C18: the handle of a decorator is unbound until a call of its function
\* has resolved the factory; a call has its storage before it enters the
\* lock, and it is the one object the registry holds, the same for every
\* call of every decorator, so no other storage object ever gets an entry;
\* a handle once bound is never bound to another object; and a call made
\* when the handle is bound takes the handle and resolves nothing.
C18_StorageBoundOnce == []OneStorage /\ [][BoundOnce]_vars

\* Two first calls of one function ran together, both resolved the factory,
\* both got the one storage, and both returned.
C18_Witness ==
    \E c, d \in Calls :
        /\ c < d /\ fn[c] = fn[d]
        /\ Did(c, "factory") /\ Did(d, "factory")
        /\ storage[c] = "S1" /\ storage[d] = "S1"
        /\ Done(c) /\ Done(d) /\ ReturnedOk(c) /\ ReturnedOk(d)

\* C19: without serialize no lock is ever held, every call that has come to
\* `with lock:` can enter it whatever the other calls are doing, and so no
\* call waits for another.
C19_NullLockNeverBlocks ==
    ~serialize =>
        /\ \A f \in Funcs : lock[f] = 0
        /\ \A c \in Calls : pc[c] = "lock" => (CanAcquire(c) /\ ENABLED Lookup(c))

\* Without serialize, two calls of one function are inside `with lock:` at
\* the same time.
C19_Witness ==
    \E c, d \in Calls :
        /\ ~serialize /\ c # d /\ fn[c] = fn[d]
        /\ Inside(c) /\ Inside(d)

\* C20 as claimed: with serialize, under a fair scheduler, every call that
\* was made eventually returns or raises, and every call that has come to
\* the lock eventually enters it, calls made from inside the wrapped
\* function included.
C20_AsClaimed ==
    \A c \in Calls :
        /\ (serialize /\ Started(c)) ~> Done(c)
        /\ (serialize /\ pc[c] = "lock") ~> Did(c, "acquire")

=============================================================================
